---- MODULE Spec2Model ----
(***************************************************************************)
(* Model of lib/bundle.js: the generator of the Gulp tasks of one bundle.  *)
(*                                                                         *)
(* A string is a sequence of tokens in which the separator ":" is a token  *)
(* of its own ("app:spec:chrome" is <<"app", ":", "spec", ":", "chrome">>),*)
(* so that concatenation, indexOf and prefix tests are computed.  Bundle   *)
(* names are single tokens.  A JavaScript value that may be undefined is   *)
(* one of "undefined", "true", "false".                                    *)
(*                                                                         *)
(* gulp.task(name, deps, fn) is a write to the map `tasks`; what fn closes *)
(* over that the properties need (the minify flag handed to code.compile)  *)
(* is kept in the task's record.  The file system probes of one call       *)
(* (fs.existsSync, glob.sync) are an input of the call.                    *)
(***************************************************************************)
EXTENDS Integers, Sequences, FiniteSets, TLC

VARIABLES
    config,      \* the GlobalConfig the bundles are generated from
    idx,         \* index in config.bundles of the next bundle to generate
    tasks,       \* gulp's task registry: task id -> [dep, minify]
    styleTasks,  \* bundle.js:34, the module-level list of style task ids
    log,         \* history: one record per generate call, in call order
    target,      \* the task the scheduler was asked to run, or NoTarget
    done         \* the tasks the scheduler has completed

vars == <<config, idx, tasks, styleTasks, log, target, done>>

----------------------------------------------------------------------------
(* Bounds *)

MaxBundles == 2      \* bundles in a configuration generated in declaration order
MaxCalls == 3        \* generate calls in one process, in any order

----------------------------------------------------------------------------
(* Strings *)

Range(s) == {s[i] : i \in 1..Len(s)}

\* `${a}:${b}`
Join(a, b) == a \o <<":">> \o b

\* String.prototype.indexOf for a one-token needle: 0-based, -1 when absent
indexOf(s, c) ==
    IF \E i \in 1..Len(s) : s[i] = c
    THEN (CHOOSE i \in 1..Len(s) : s[i] = c /\ \A j \in 1..(i - 1) : s[j] # c) - 1
    ELSE -1

StartsWith(s, p) == Len(s) >= Len(p) /\ SubSeq(s, 1, Len(p)) = p

\* _.map over a list
RECURSIVE MapSuffix(_, _)
MapSuffix(names, suffix) ==
    IF names = <<>> THEN <<>>
    ELSE <<Join(Head(names), suffix)>> \o MapSuffix(Tail(names), suffix)

\* _.intersection(a, b): the unique values of a that are in b, in a's order
RECURSIVE intersection(_, _)
intersection(a, b) ==
    IF a = <<>> THEN <<>>
    ELSE LET rest == intersection(SubSeq(a, 1, Len(a) - 1), b)
             x == a[Len(a)]
         IN  IF x \in Range(b) /\ x \notin Range(rest) THEN Append(rest, x) ELSE rest

Truthy(v) == v = "true"

----------------------------------------------------------------------------
(* bundle.js *)

\* bundle.js:23-31, in the insertion order _.forEach visits
specsTasks == <<
    [k |-> <<"spec">>,                 v |-> <<"PhantomJS">>],
    [k |-> <<"spec", ":", "chrome">>,  v |-> <<"Chrome">>],
    [k |-> <<"spec", ":", "ie">>,      v |-> <<"IE">>],
    [k |-> <<"spec", ":", "firefox">>, v |-> <<"Firefox">>],
    [k |-> <<"spec", ":", "edge">>,    v |-> <<"Edge">>],
    [k |-> <<"spec", ":", "windows">>, v |-> <<"Chrome", "Firefox", "IE", "Edge">>],
    [k |-> <<"spec", ":", "linux">>,   v |-> <<"Chrome", "Firefox">>] >>

\* one gulp.task call
Reg(name, dep, minify) == [name |-> name, dep |-> dep, minify |-> minify]

\* line 41 without the dependencies' preBuild tasks
preBuildDeps0_NoDependencies(bundle) == bundle.beforeBuild

\* line 41 with the bundle's own name mapped too
preBuildDeps0_WithSelf(bundle) ==
    bundle.beforeBuild \o MapSuffix(Append(bundle.dependencies, bundle.name), <<"preBuild">>)

\* bundle.js:41
preBuildDeps0(bundle) ==
    bundle.beforeBuild \o MapSuffix(bundle.dependencies, <<"preBuild">>)

\* line 46 without the typeof test
defaultMinify_TruthyOnly(cfg) == Truthy(cfg.minify)

\* bundle.js:46
defaultMinify(cfg) == Truthy(cfg.minify) \/ cfg.minify = "undefined"

\* bundle.js:115 and 160
effectiveMinify(bundle, minify) ==
    IF bundle.minify = "undefined" THEN minify ELSE Truthy(bundle.minify)

MinifyArg(b) == IF b THEN "true" ELSE "false"

\* bundle.js:50
angularEnabled(bundle) == Truthy(bundle.angular) \/ bundle.angular = "undefined"

\* line 98 also taking index.scss for a code entry point
hasCodeEntry_OrStyles(files) == files.ts \/ files.scss

\* bundle.js:78, 98, 136
hasStyleEntry(files) == files.scss
hasCodeEntry(files) == files.ts
hasSpecEntry(files) == files.spec

\* line 79 with a misspelt suffix
styleDeps_WrongSuffix(st, bundle) ==
    intersection(st, MapSuffix(bundle.dependencies, <<"style">>))

\* line 79 without the intersection with the style tasks generated so far
styleDeps_Unfiltered(st, bundle) == MapSuffix(bundle.dependencies, <<"styles">>)

\* bundle.js:79
styleDeps(st, bundle) == intersection(st, MapSuffix(bundle.dependencies, <<"styles">>))

\* bundle.js:92-93: _.find gives undefined for an unknown name and dep.root throws
findBundle(cfg, name) == {i \in 1..Len(cfg.bundles) : cfg.bundles[i].name = name}
dependenciesCodeThrows(cfg, bundle) ==
    \E i \in 1..Len(bundle.dependencies) : findBundle(cfg, bundle.dependencies[i]) = {}

\* line 181 with the test inverted
hasDebug_Inverted(k) == indexOf(k, ":") < 0

\* bundle.js:181
hasDebug(k) == indexOf(k, ":") > 0

\* bundle.js:165-195
RECURSIVE specRegs(_, _, _)
specRegs(name, compileName, table) ==
    IF table = <<>> THEN <<>>
    ELSE LET k == Head(table).k
         IN  <<Reg(Join(name, k), <<compileName>>, "none")>>
             \o (IF hasDebug(k)
                 THEN <<Reg(Join(Join(name, k), <<"debug">>), <<compileName>>, "none")>>
                 ELSE <<>>)
             \o specRegs(name, compileName, Tail(table))

\* bundle.js:40-201: the gulp.task calls of one generate call in call order, the
\* style task list it leaves, and how it ends.  The tasks that run.generate adds
\* for a bundle with a `run` section (lib/run.js) are not part of it.
generate(bundle, cfg, files, st) ==
    LET name == bundle.name
        minify == defaultMinify(cfg)
        pbd0 == preBuildDeps0(bundle)
        tmpl == angularEnabled(bundle) /\ files.html
        img == angularEnabled(bundle) /\ files.svg
        scss == hasStyleEntry(files)
        tmplName == Join(name, <<"templates">>)
        imgName == Join(name, <<"images">>)
        assetsName == Join(name, <<"assets">>)
        stylesName == Join(name, <<"styles">>)
        pbd1 == IF tmpl THEN Append(pbd0, tmplName) ELSE pbd0
        pbd2 == IF img THEN Append(pbd1, imgName) ELSE pbd1
        preBuildDeps == IF scss THEN Append(pbd2, stylesName) ELSE pbd2
        st1 == IF scss THEN Append(st, stylesName) ELSE st
        regsA == (IF tmpl THEN <<Reg(tmplName, <<>>, "none")>> ELSE <<>>)
                 \o (IF img THEN <<Reg(imgName, <<>>, "none")>> ELSE <<>>)
                 \o <<Reg(assetsName, <<>>, "none")>>
                 \o (IF scss THEN <<Reg(stylesName, styleDeps(st, bundle), "none")>>
                     ELSE <<>>)
        verifyName == Join(name, <<"code", ":", "verify">>)
        codeName == Join(name, <<"code", ":", "compile">>)
        arg == MinifyArg(effectiveMinify(bundle, minify))
        regsB == IF hasCodeEntry(files)
                 THEN <<Reg(verifyName, preBuildDeps, "none"),
                        Reg(codeName, <<verifyName>>, arg)>>
                 ELSE <<>>
        buildDeps == IF hasCodeEntry(files) THEN <<assetsName, codeName>>
                     ELSE <<assetsName>>
        preBuildName == Join(name, <<"preBuild">>)
        buildTasksName == Join(name, <<"build-tasks">>)
        regsC == <<Reg(preBuildName, preBuildDeps, "none"),
                   Reg(buildTasksName, preBuildDeps \o buildDeps, "none"),
                   Reg(Join(name, <<"build">>), <<buildTasksName>>, "none")>>
        injectName == Join(name, <<"spec", ":", "inject">>)
        specVerifyName == Join(name, <<"spec", ":", "verify">>)
        compileName == Join(name, <<"spec", ":", "compile">>)
        regsD == IF hasSpecEntry(files)
                 THEN <<Reg(injectName, <<>>, "none"),
                        Reg(specVerifyName, <<>>, "none"),
                        Reg(compileName, <<specVerifyName, injectName>> \o preBuildDeps, arg)>>
                      \o specRegs(name, compileName, specsTasks)
                 ELSE <<>>
    IN  IF hasCodeEntry(files) /\ dependenciesCodeThrows(cfg, bundle)
        THEN [regs |-> regsA, styleTasks |-> st1, outcome |-> "TypeError"]
        ELSE [regs |-> regsA \o regsB \o regsC \o regsD, styleTasks |-> st1,
              outcome |-> "returned"]

\* gulp.task: a later registration of a name replaces the earlier one
RECURSIVE Register(_, _)
Register(t, regs) ==
    IF regs = <<>> THEN t
    ELSE LET r == Head(regs)
             t1 == [x \in (DOMAIN t) \cup {r.name} |->
                       IF x = r.name THEN [dep |-> r.dep, minify |-> r.minify] ELSE t[x]]
         IN  Register(t1, Tail(regs))

NoTarget == <<>>
EmptyTasks == [x \in {} |-> [dep |-> <<>>, minify |-> "none"]]

\* one call generate(bundle, cfg) that finds `files` in the bundle's root
Call(bundle, cfg, files) ==
    LET g == generate(bundle, cfg, files, styleTasks)
    IN  /\ tasks' = Register(tasks, g.regs)
        /\ styleTasks' = g.styleTasks
        /\ log' = Append(log, [bundle |-> bundle, files |-> files, regs |-> g.regs,
                               outcome |-> g.outcome, before |-> styleTasks])

----------------------------------------------------------------------------
(* Inputs *)

Tri == {"undefined", "true", "false"}

AllFiles == [scss : BOOLEAN, ts : BOOLEAN, spec : BOOLEAN, html : BOOLEAN, svg : BOOLEAN]

\* one call for one bundle of a two-bundle configuration, every option drawn
CallBundles ==
    [name : {<<"a">>},
     dependencies : {<<>>, <<<<"b">>>>, <<<<"x">>>>, <<<<"b">>, <<"x">>>>},
     beforeBuild : {<<>>, <<<<"lint">>>>},
     angular : Tri,
     minify : Tri]

OtherBundle ==
    [name |-> <<"b">>, dependencies |-> <<>>, beforeBuild |-> <<>>,
     angular |-> "undefined", minify |-> "undefined"]

InitCall ==
    /\ \E b \in CallBundles, m \in Tri :
          config = [minify |-> m, bundles |-> <<b, OtherBundle>>]
    /\ idx = 1
    /\ tasks = EmptyTasks
    /\ styleTasks = <<>>
    /\ log = <<>>
    /\ target = NoTarget
    /\ done = {}

GenerateCall ==
    /\ idx = 1
    /\ \E files \in AllFiles : Call(config.bundles[1], config, files)
    /\ idx' = 2
    /\ UNCHANGED <<config, target, done>>

NextCall == GenerateCall

SpecCall == InitCall /\ [][NextCall]_vars

----------------------------------------------------------------------------
(* A configuration generated bundle by bundle in declaration order *)

BundleNames == <<"a", "b", "c", "d">>
Name(i) == <<BundleNames[i]>>

\* the names of the bundles with the indices in S, by index
RECURSIVE NamesOf(_)
NamesOf(S) ==
    IF S = {} THEN <<>>
    ELSE LET m == CHOOSE x \in S : \A y \in S : x <= y
         IN  <<Name(m)>> \o NamesOf(S \ {m})

Bundle(i, deps, before) ==
    [name |-> Name(i), dependencies |-> NamesOf(deps), beforeBuild |-> before,
     angular |-> "undefined", minify |-> "undefined"]

\* the roots the bundles of a multi-bundle configuration are drawn from
Files(scss, ts, spec, html, svg) ==
    [scss |-> scss, ts |-> ts, spec |-> spec, html |-> html, svg |-> svg]
RunFiles ==
    {Files(FALSE, FALSE, FALSE, FALSE, FALSE), Files(TRUE, FALSE, FALSE, FALSE, FALSE),
     Files(FALSE, TRUE, FALSE, FALSE, FALSE),  Files(TRUE, TRUE, FALSE, FALSE, FALSE),
     Files(FALSE, FALSE, TRUE, TRUE, FALSE),   Files(TRUE, TRUE, TRUE, FALSE, FALSE),
     Files(TRUE, TRUE, TRUE, TRUE, TRUE)}

\* every dependency names another bundle of the configuration, declared before or
\* after; only the first bundle may have a beforeBuild task
Configs ==
    UNION {
        {[minify |-> "undefined",
          bundles |-> [i \in 1..n |-> Bundle(i, deps[i], IF i = 1 THEN before ELSE <<>>)]] :
            deps \in [1..n -> SUBSET (1..n)], before \in {<<>>, <<<<"lint">>>>}}
        : n \in 1..MaxBundles}

NoSelfDependency(cfg) ==
    \A i \in 1..Len(cfg.bundles) : Name(i) \notin Range(cfg.bundles[i].dependencies)

Init ==
    /\ config \in {cfg \in Configs : NoSelfDependency(cfg)}
    /\ idx = 1
    /\ tasks = EmptyTasks
    /\ styleTasks = <<>>
    /\ log = <<>>
    /\ target = NoTarget
    /\ done = {}

\* the loop over config.bundles: generate(bundle, config) for the next bundle
GenerateNext ==
    /\ idx <= Len(config.bundles)
    /\ \E files \in RunFiles : Call(config.bundles[idx], config, files)
    /\ idx' = idx + 1
    /\ UNCHANGED <<config, target, done>>

Next == GenerateNext

Spec == Init /\ [][Next]_vars

----------------------------------------------------------------------------
(* Properties of one call *)

Calls == {log[i] : i \in 1..Len(log)}
RegNames(c) == {c.regs[i].name : i \in 1..Len(c.regs)}
Registered == DOMAIN tasks

SpecPrefix(name) == Join(name, <<"spec">>)
SpecCompile(name) == Join(name, <<"spec", ":", "compile">>)
SpecPipeline(name) ==
    {Join(name, <<"spec", ":", "inject">>), Join(name, <<"spec", ":", "verify">>),
     SpecCompile(name)}
CodeVerify(name) == Join(name, <<"code", ":", "verify">>)
CodeCompile(name) == Join(name, <<"code", ":", "compile">>)

\* the test tasks of a bundle in the registry: every <name>:spec... task that is
\* not part of the inject / verify / compile pipeline
TestTasks(name) == {n \in Registered : StartsWith(n, SpecPrefix(name))} \ SpecPipeline(name)

Base7(name) ==
    {Join(name, <<"spec">>), Join(name, <<"spec", ":", "chrome">>),
     Join(name, <<"spec", ":", "ie">>), Join(name, <<"spec", ":", "firefox">>),
     Join(name, <<"spec", ":", "edge">>), Join(name, <<"spec", ":", "windows">>),
     Join(name, <<"spec", ":", "linux">>)}
Debug4(name) ==
    {Join(name, <<"spec", ":", "chrome", ":", "debug">>),
     Join(name, <<"spec", ":", "ie", ":", "debug">>),
     Join(name, <<"spec", ":", "firefox", ":", "debug">>),
     Join(name, <<"spec", ":", "edge", ":", "debug">>)}
Debug6(name) ==
    Debug4(name) \cup {Join(name, <<"spec", ":", "windows", ":", "debug">>),
                       Join(name, <<"spec", ":", "linux", ":", "debug">>)}

TestTasksAre(c, debug) ==
    LET name == c.bundle.name
    IN  /\ TestTasks(name) = Base7(name) \cup debug
        /\ Cardinality(TestTasks(name) \ debug) = 7
        /\ \A n \in TestTasks(name) : tasks[n].dep = <<SpecCompile(name)>>

\* C1 as stated: a bundle with spec.ts gets the 7 base test tasks and exactly the
\* 4 debug tasks of chrome, ie, firefox and edge, each depending only on
\* <name>:spec:compile.
C1_Original ==
    \A c \in Calls :
        c.files.spec /\ c.outcome = "returned" => TestTasksAre(c, Debug4(c.bundle.name))

\* C1, amended: whenever generate returns for a bundle with spec.ts, the registry
\* holds the 7 base test tasks and exactly 6 debug tasks (chrome, ie, firefox,
\* edge, windows, linux: every preset key with a ":"), each depending only on
\* <name>:spec:compile.
C1_TestTasks ==
    \A c \in Calls :
        c.files.spec /\ c.outcome = "returned" => TestTasksAre(c, Debug6(c.bundle.name))

C1_Witness ==
    \E c \in Calls :
        /\ c.files.spec /\ c.outcome = "returned"
        /\ Join(c.bundle.name, <<"spec", ":", "linux", ":", "debug">>) \in Registered
        /\ Join(c.bundle.name, <<"spec">>) \in Registered

\* C2 as stated: a bundle without index.ts has no <name>:code:verify, no
\* <name>:code:compile and no task whose name starts with <name>:spec.
C2_Original ==
    \A c \in Calls :
        ~c.files.ts =>
            /\ CodeVerify(c.bundle.name) \notin Registered
            /\ CodeCompile(c.bundle.name) \notin Registered
            /\ ~\E n \in Registered : StartsWith(n, SpecPrefix(c.bundle.name))

\* C2, amended: generate for a bundle without index.ts registers no
\* <name>:code:verify and no <name>:code:compile; it registers tasks whose name
\* starts with <name>:spec exactly when the root contains spec.ts.
C2_NoCodeTasks ==
    \A c \in Calls :
        ~c.files.ts =>
            /\ CodeVerify(c.bundle.name) \notin Registered \cup RegNames(c)
            /\ CodeCompile(c.bundle.name) \notin Registered \cup RegNames(c)
            /\ (\E n \in RegNames(c) : StartsWith(n, SpecPrefix(c.bundle.name)))
                    <=> c.files.spec
            /\ (\E n \in Registered : StartsWith(n, SpecPrefix(c.bundle.name)))
                    <=> c.files.spec

C2_Witness ==
    \E c \in Calls :
        /\ ~c.files.ts /\ c.files.spec /\ c.files.scss
        /\ SpecCompile(c.bundle.name) \in Registered
        /\ CodeVerify(c.bundle.name) \notin Registered

UnknownDependency(c) ==
    \E i \in 1..Len(c.bundle.dependencies) :
        \A j \in 1..Len(config.bundles) : config.bundles[j].name # c.bundle.dependencies[i]

\* C6: a bundle with a dependency that names no bundle of the configuration makes
\* generate end with an "unknown bundle dependency" fault, whatever files its root
\* holds.
C6_UnknownDependencyFault ==
    \A c \in Calls : UnknownDependency(c) => c.outcome = "unknown bundle dependency"

ExpectedMinify(bundleMinify, configMinify) ==
    IF bundleMinify # "undefined" THEN bundleMinify
    ELSE IF configMinify # "undefined" THEN configMinify
    ELSE "true"

\* C8: the minify flag handed to code.compile by <name>:code:compile and by
\* <name>:spec:compile is bundle.minify if defined, else config.minify if defined,
\* else true.
C8_EffectiveMinify ==
    \A c \in Calls :
        \A n \in {CodeCompile(c.bundle.name), SpecCompile(c.bundle.name)} :
            n \in Registered =>
                tasks[n].minify = ExpectedMinify(c.bundle.minify, config.minify)

C8_Witness ==
    \E c \in Calls :
        /\ c.bundle.minify = "undefined" /\ config.minify = "undefined"
        /\ CodeCompile(c.bundle.name) \in Registered
        /\ SpecCompile(c.bundle.name) \in Registered
        /\ tasks[CodeCompile(c.bundle.name)].minify = "true"
        /\ tasks[SpecCompile(c.bundle.name)].minify = "true"

----------------------------------------------------------------------------
(* Properties of a configuration generated in declaration order *)

N == Len(config.bundles)
AllGenerated == idx > N /\ Len(log) = N
Lists(b, a) == Name(a) \in Range(config.bundles[b].dependencies)
Styles(i) == Join(Name(i), <<"styles">>)

StylesChained(a, b) ==
    Lists(b, a) /\ log[a].files.scss /\ log[b].files.scss
        => /\ Styles(b) \in Registered
           /\ Styles(a) \in Range(tasks[Styles(b)].dep)

\* C3 as stated: B lists A, both have index.scss, A declared before or after B:
\* once every bundle is generated, B:styles has A:styles among its prerequisites.
C3_Original ==
    AllGenerated => \A a \in 1..N, b \in 1..N : a # b => StylesChained(a, b)

\* C3, amended: B lists A, both have index.scss and A is declared before B: once
\* every bundle is generated, B:styles has A:styles among its prerequisites.
C3_StylesChained ==
    AllGenerated => \A a \in 1..N, b \in 1..N : a < b => StylesChained(a, b)

C3_Witness ==
    /\ AllGenerated
    /\ \E a \in 1..N, b \in 1..N :
          /\ a < b /\ Lists(b, a) /\ log[a].files.scss /\ log[b].files.scss
          /\ Styles(a) \in Range(tasks[Styles(b)].dep)

\* every gulp.task call of the process so far, in call order
RECURSIVE Flatten(_)
Flatten(calls) == IF calls = <<>> THEN <<>> ELSE Head(calls).regs \o Flatten(Tail(calls))
AllRegs == Flatten(log)

\* a task id whose first token is the name of a bundle of the configuration
IsBundleTask(id) == \E i \in 1..N : id[1] = BundleNames[i]

\* every prerequisite that names a bundle task was registered by an earlier call
\* of gulp.task
BuiltForward ==
    LET regs == AllRegs
    IN  \A p \in 1..Len(regs) :
            \A d \in Range(regs[p].dep) :
                IsBundleTask(d) => \E q \in 1..(p - 1) : regs[q].name = d

DeclaredEarlier ==
    \A b \in 1..N, a \in 1..N : Lists(b, a) => a < b

\* C5 as stated: with unique names and every dependency naming a bundle of the
\* configuration, each task is registered after every bundle task it lists as a
\* prerequisite.
C5_Original == BuiltForward

\* C5, amended: with unique names and every dependency naming a bundle declared
\* earlier in the configuration, each task is registered after every bundle task
\* it lists as a prerequisite.
C5_BuiltForward == DeclaredEarlier => BuiltForward

C5_Witness ==
    /\ AllGenerated /\ DeclaredEarlier
    /\ \E a \in 1..N, b \in 1..N :
          /\ Lists(b, a)
          /\ log[a].files.scss /\ log[b].files.scss /\ log[b].files.ts
          /\ log[b].files.spec /\ log[b].files.html
          /\ Join(Name(a), <<"preBuild">>) \in Range(tasks[SpecCompile(Name(b))].dep)

----------------------------------------------------------------------------
(* Any sequence of generate calls in one process *)

InitAny ==
    /\ config \in {cfg \in Configs : NoSelfDependency(cfg) /\ Len(cfg.bundles) = MaxBundles}
    /\ idx = 1
    /\ tasks = EmptyTasks
    /\ styleTasks = <<>>
    /\ log = <<>>
    /\ target = NoTarget
    /\ done = {}

\* generate(bundle, config) for any bundle of the configuration, again or not,
\* with whatever its root holds at that moment
GenerateAny ==
    /\ Len(log) < MaxCalls
    /\ \E i \in 1..Len(config.bundles), files \in RunFiles :
          Call(config.bundles[i], config, files)
    /\ UNCHANGED <<config, idx, target, done>>

NextAny == GenerateAny

SpecAny == InitAny /\ [][NextAny]_vars

StylesOf(name) == Join(name, <<"styles">>)

\* C4: a bundle A generated without index.scss gets no A:styles task from that
\* call, and no styles task registered afterwards (before A is generated again)
\* for a bundle that lists A has A:styles among its prerequisites.
C4_NoStylesPrerequisite ==
    \A i \in 1..Len(log) :
        ~log[i].files.scss =>
            LET A == log[i].bundle.name
            IN  /\ StylesOf(A) \notin RegNames(log[i])
                /\ \A j \in (i + 1)..Len(log) :
                      /\ A \in Range(log[j].bundle.dependencies)
                      /\ \A m \in (i + 1)..(j - 1) : log[m].bundle.name # A
                      =>
                          \A k \in 1..Len(log[j].regs) :
                              log[j].regs[k].name = StylesOf(log[j].bundle.name)
                                  => StylesOf(A) \notin Range(log[j].regs[k].dep)

IsPrefix(s, t) == Len(s) <= Len(t) /\ SubSeq(t, 1, Len(s)) = s
NoDuplicates(s) == \A i \in 1..Len(s), j \in 1..Len(s) : s[i] = s[j] => i = j
RegistryAfter(i) == IF i < Len(log) THEN log[i + 1].before ELSE styleTasks

\* C9: over any sequence of generate calls the style task list is append-only,
\* grows by at most one entry per call, and holds no id twice.
C9_RegistryIsOrderedSet ==
    /\ \A i \in 1..Len(log) :
          /\ IsPrefix(log[i].before, RegistryAfter(i))
          /\ Len(RegistryAfter(i)) <= Len(log[i].before) + 1
    /\ NoDuplicates(styleTasks)

----------------------------------------------------------------------------
(* The scheduler: runs a target and what it transitively requires, each task
   only once all of its prerequisites have completed *)

SchedFiles ==
    {Files(FALSE, FALSE, FALSE, FALSE, FALSE), Files(TRUE, FALSE, FALSE, FALSE, FALSE),
     Files(TRUE, TRUE, FALSE, TRUE, FALSE)}

GenerateSched ==
    /\ idx <= Len(config.bundles)
    /\ \E files \in SchedFiles : Call(config.bundles[idx], config, files)
    /\ idx' = idx + 1
    /\ UNCHANGED <<config, target, done>>

Prerequisites(t) == IF t \in Registered THEN Range(tasks[t].dep) ELSE {}

\* the tasks a run of `t` requires: t and, transitively, the prerequisites
RECURSIVE Closure(_)
Closure(S) ==
    LET more == S \cup UNION {Prerequisites(t) : t \in S}
    IN  IF more = S THEN S ELSE Closure(more)
Needed(t) == Closure({t})

BuildOf(i) == Join(Name(i), <<"build">>)

\* gulp <name>:build
Start ==
    /\ idx > Len(config.bundles)
    /\ target = NoTarget
    /\ \E i \in 1..Len(config.bundles) : target' = BuildOf(i)
    /\ UNCHANGED <<config, idx, tasks, styleTasks, log, done>>

\* a required task whose prerequisites have all completed runs to completion
RunTask ==
    /\ target # NoTarget
    /\ \E t \in (Needed(target) \cap Registered) \ done :
          /\ Prerequisites(t) \subseteq done
          /\ done' = done \cup {t}
    /\ UNCHANGED <<config, idx, tasks, styleTasks, log, target>>

NextSched == GenerateSched \/ Start \/ RunTask

SpecSched ==
    /\ Init /\ [][NextSched]_vars
    /\ WF_vars(GenerateSched) /\ WF_vars(Start) /\ WF_vars(RunTask)

----------------------------------------------------------------------------
(* Properties of a run *)

PreBuildOf(i) == Join(Name(i), <<"preBuild">>)
BuildTasksOf(i) == Join(Name(i), <<"build-tasks">>)
AssetsOf(i) == Join(Name(i), <<"assets">>)

\* what `gulp <name>:build` stands for: the build task, its build-tasks and the
\* assets and code:compile tasks behind it
BuildStage(i) ==
    {BuildOf(i), BuildTasksOf(i), AssetsOf(i)} \cup ({CodeCompile(Name(i))} \cap Registered)

\* the pre-build stage: <name>:preBuild and the tasks it lists
PreBuildStage(i) == {PreBuildOf(i)} \cup Prerequisites(PreBuildOf(i))

Acyclic == \A t \in Registered : t \notin Closure(Prerequisites(t))

NoBeforeBuild == \A i \in 1..N : config.bundles[i].beforeBuild = <<>>

MutualCycle(a, b) ==
    /\ \A i \in 1..Len(log) : log[i].outcome = "returned"
    /\ PreBuildOf(b) \in Prerequisites(PreBuildOf(a))
    /\ PreBuildOf(a) \in Prerequisites(PreBuildOf(b))

\* C10: when every dependency names a bundle declared earlier and beforeBuild is
\* empty, the registered prerequisite relation is acyclic and a run of any
\* <name>:build completes it; when A lists B and B lists A, generate still returns
\* normally and the graph holds the cycle A:preBuild -> B:preBuild -> A:preBuild.
C10_AcyclicAndBuilt ==
    /\ [](AllGenerated /\ target = NoTarget /\ DeclaredEarlier /\ NoBeforeBuild => Acyclic)
    /\ (DeclaredEarlier /\ NoBeforeBuild /\ target # NoTarget) ~> (target \in done)
    /\ [](AllGenerated =>
            \A a \in 1..N, b \in 1..N :
                a # b /\ Lists(a, b) /\ Lists(b, a) => MutualCycle(a, b))

C10_Witness ==
    /\ DeclaredEarlier /\ NoBeforeBuild /\ N = MaxBundles
    /\ \E a \in 1..N, b \in 1..N : Lists(b, a) /\ target = BuildOf(b)
    /\ target \in done

\* the second case of C10 is reached as well
C10_WitnessCycle ==
    /\ AllGenerated
    /\ \E a \in 1..N, b \in 1..N : a # b /\ Lists(a, b) /\ Lists(b, a) /\ MutualCycle(a, b)

====
